---- MODULE Spec2Model ----
(***************************************************************************)
(* Sequential parser combinators of nom (src/sequence/mod.rs): pair,       *)
(* preceded, terminated, separated_pair, delimited and tuple.              *)
(*                                                                         *)
(* A cursor is a sequence of one-character strings.  An IResult is a       *)
(* record: Ok((i, o)) is [tag |-> "Ok", i, o] and Err(e) is                *)
(* [tag |-> "Err", e] with e.variant in {"Error","Failure","Incomplete"}.  *)
(* A parser value (a closure) is a record naming the combinator that built *)
(* it and the parsers it captured.  Every sub-parser call goes through     *)
(* call, and a leaf parser is wrapped in a probe that appends the call to  *)
(* the invocation history h; an operator that calls parsers returns        *)
(* [res |-> IResult, h |-> history after the call].                        *)
(***************************************************************************)
EXTENDS Integers, Sequences, FiniteSets, TLC

VARIABLES parser, input, result, calls

vars == <<parser, input, result, calls>>

\* ---- bounds ------------------------------------------------------------
MaxLen == 3
MaxArity == 4

\* ---- arities the tuple_trait! invocation generates -----------------------
TupleMinArity == 2
TupleMaxArity == 21

\* ---- cursors -------------------------------------------------------------
Alphabet == {"a", "b"}

RECURSIVE StrsOfLen(_)
StrsOfLen(n) ==
  IF n = 0 THEN {<<>>}
  ELSE {Append(s, ch) : s \in StrsOfLen(n - 1), ch \in Alphabet}

Inputs == UNION {StrsOfLen(n) : n \in 0..MaxLen}

IsPrefix(p, s) == Len(p) <= Len(s) /\ SubSeq(s, 1, Len(p)) = p
IsSuffix(t, s) == Len(t) <= Len(s) /\ SubSeq(s, Len(s) - Len(t) + 1, Len(s)) = t
Drop(s, n) == SubSeq(s, n + 1, Len(s))

\* ---- IResult -------------------------------------------------------------
Ok(i, o) == [tag |-> "Ok", i |-> i, o |-> o]
Err(e) == [tag |-> "Err", e |-> e]
ErrError(i, code) == [variant |-> "Error", input |-> i, code |-> code]
ErrFailure(i, code) == [variant |-> "Failure", input |-> i, code |-> code]
ErrIncomplete(n) == [variant |-> "Incomplete", needed |-> n]

\* ---- leaf parsers (external collaborators) ---------------------------------
Tag(lit) == [kind |-> "tag", lit |-> lit]
TagStreaming(lit) == [kind |-> "tag_streaming", lit |-> lit]
CutTag(lit) == [kind |-> "cut_tag", lit |-> lit]

leaf(p, i) ==
  IF IsPrefix(p.lit, i) THEN Ok(Drop(i, Len(p.lit)), p.lit)
  ELSE IF p.kind = "tag_streaming" /\ IsPrefix(i, p.lit)
       THEN Err(ErrIncomplete(Len(p.lit)))
  ELSE IF p.kind = "cut_tag" THEN Err(ErrFailure(i, "Tag"))
  ELSE Err(ErrError(i, "Tag"))

Leaves == {Tag(<<"a">>), Tag(<<"b">>), Tag(<<"a", "b">>),
           TagStreaming(<<"a", "b">>), CutTag(<<"b">>)}

\* ---- parser values -------------------------------------------------------
Probe(k, q) == [node |-> "probe", id |-> k, p |-> q]
PairP(first, second) == [node |-> "pair", first |-> first, second |-> second]
PrecededP(first, second) == [node |-> "preceded", first |-> first, second |-> second]
TerminatedP(first, second) == [node |-> "terminated", first |-> first, second |-> second]
SeparatedPairP(first, sep, second) ==
  [node |-> "separated_pair", first |-> first, sep |-> sep, second |-> second]
DelimitedP(first, sep, second) ==
  [node |-> "delimited", first |-> first, sep |-> sep, second |-> second]
TupleP(l) == [node |-> "tuple", l |-> l]

RECURSIVE call(_, _, _)

\* the ? operator on a sub-parser's outcome: TRUE when it returns early
Try(r) == r.res.tag # "Ok"

\* Result::map over the outcome of the last sub-parser
MapOk(r, o) == IF r.res.tag = "Ok" THEN [res |-> Ok(r.res.i, o), h |-> r.h] ELSE r

\* pair with the second parser run on the original input
pair_second_on_original_input(first, second, i, h) ==
  LET r1 == call(first, i, h) IN
  IF Try(r1) THEN r1
  ELSE LET r2 == call(second, i, r1.h) IN
       MapOk(r2, <<r1.res.o, r2.res.o>>)

\* pair returning the cursor the first parser left
pair_returns_first_cursor(first, second, i, h) ==
  LET r1 == call(first, i, h) IN
  IF Try(r1) THEN r1
  ELSE LET r2 == call(second, r1.res.i, r1.h) IN
       IF r2.res.tag = "Ok"
       THEN [res |-> Ok(r1.res.i, <<r1.res.o, r2.res.o>>), h |-> r2.h]
       ELSE r2

pair(first, second, i, h) ==
  LET r1 == call(first, i, h) IN
  IF Try(r1) THEN r1
  ELSE LET r2 == call(second, r1.res.i, r1.h) IN
       MapOk(r2, <<r1.res.o, r2.res.o>>)

\* preceded keeping the first parser's output
preceded_keeps_first(first, second, i, h) ==
  LET r1 == call(first, i, h) IN
  IF Try(r1) THEN r1
  ELSE LET r2 == call(second, r1.res.i, r1.h) IN
       MapOk(r2, r1.res.o)

preceded(first, second, i, h) ==
  LET r1 == call(first, i, h) IN
  IF Try(r1) THEN r1
  ELSE call(second, r1.res.i, r1.h)

\* terminated returning the cursor before the terminator
terminated_unconsumed_marker(first, second, i, h) ==
  LET r1 == call(first, i, h) IN
  IF Try(r1) THEN r1
  ELSE LET r2 == call(second, r1.res.i, r1.h) IN
       IF r2.res.tag = "Ok" THEN [res |-> Ok(r1.res.i, r1.res.o), h |-> r2.h] ELSE r2

terminated(first, second, i, h) ==
  LET r1 == call(first, i, h) IN
  IF Try(r1) THEN r1
  ELSE LET r2 == call(second, r1.res.i, r1.h) IN
       MapOk(r2, r1.res.o)

\* separated_pair keeping the separator's output in place of the second's
separated_pair_keeps_sep(first, sep, second, i, h) ==
  LET r1 == call(first, i, h) IN
  IF Try(r1) THEN r1
  ELSE LET r2 == call(sep, r1.res.i, r1.h) IN
       IF Try(r2) THEN r2
       ELSE LET r3 == call(second, r2.res.i, r2.h) IN
            MapOk(r3, <<r1.res.o, r2.res.o>>)

separated_pair(first, sep, second, i, h) ==
  LET r1 == call(first, i, h) IN
  IF Try(r1) THEN r1
  ELSE LET r2 == call(sep, r1.res.i, r1.h) IN
       IF Try(r2) THEN r2
       ELSE LET r3 == call(second, r2.res.i, r2.h) IN
            MapOk(r3, <<r1.res.o, r3.res.o>>)

\* delimited reporting a failure of the middle parser as its own error
delimited_rewraps_sep_error(first, sep, second, i, h) ==
  LET r1 == call(first, i, h) IN
  IF Try(r1) THEN r1
  ELSE LET r2 == call(sep, r1.res.i, r1.h) IN
       IF Try(r2) THEN [res |-> Err(ErrError(i, "Delimited")), h |-> r2.h]
       ELSE LET r3 == call(second, r2.res.i, r2.h) IN
            MapOk(r3, r2.res.o)

\* delimited keeping the opening marker's output
delimited_keeps_open(first, sep, second, i, h) ==
  LET r1 == call(first, i, h) IN
  IF Try(r1) THEN r1
  ELSE LET r2 == call(sep, r1.res.i, r1.h) IN
       IF Try(r2) THEN r2
       ELSE LET r3 == call(second, r2.res.i, r2.h) IN
            MapOk(r3, r1.res.o)

delimited(first, sep, second, i, h) ==
  LET r1 == call(first, i, h) IN
  IF Try(r1) THEN r1
  ELSE LET r2 == call(sep, r1.res.i, r1.h) IN
       IF Try(r2) THEN r2
       ELSE LET r3 == call(second, r2.res.i, r2.h) IN
            MapOk(r3, r2.res.o)

\* succ!(it, ...) re-enters the macro with the next tuple index
succ(it) == it + 1

\* tuple_trait_inner accumulating the outputs in reverse
RECURSIVE tuple_trait_inner_prepend(_, _, _, _, _)
tuple_trait_inner_prepend(it, self, i, parsed, h) ==
  LET r == call(self[it + 1], i, h) IN
  IF Try(r) THEN r
  ELSE IF it + 1 < Len(self)
       THEN tuple_trait_inner_prepend(succ(it), self, r.res.i, <<r.res.o>> \o parsed, r.h)
       ELSE [res |-> Ok(r.res.i, <<r.res.o>> \o parsed), h |-> r.h]

\* tuple_trait_inner passing $input on instead of the cursor i just returned
RECURSIVE tuple_trait_inner_reuses_input(_, _, _, _, _)
tuple_trait_inner_reuses_input(it, self, i, parsed, h) ==
  LET r == call(self[it + 1], i, h) IN
  IF Try(r) THEN r
  ELSE IF it + 1 < Len(self)
       THEN tuple_trait_inner_reuses_input(succ(it), self, i, Append(parsed, r.res.o), r.h)
       ELSE [res |-> Ok(r.res.i, Append(parsed, r.res.o)), h |-> r.h]

\* tuple_trait_inner trying a failed sub-parser a second time
RECURSIVE tuple_trait_inner_retry(_, _, _, _, _)
tuple_trait_inner_retry(it, self, i, parsed, h) ==
  LET r == call(self[it + 1], i, h) IN
  IF Try(r) THEN call(self[it + 1], i, r.h)
  ELSE IF it + 1 < Len(self)
       THEN tuple_trait_inner_retry(succ(it), self, r.res.i, Append(parsed, r.res.o), r.h)
       ELSE [res |-> Ok(r.res.i, Append(parsed, r.res.o)), h |-> r.h]

\* self is the tuple of parsers, indexed from 0 as self.0, self.1, ...
RECURSIVE tuple_trait_inner(_, _, _, _, _)
tuple_trait_inner(it, self, i, parsed, h) ==
  LET r == call(self[it + 1], i, h) IN
  IF Try(r) THEN r
  ELSE IF it + 1 < Len(self)
       THEN tuple_trait_inner(succ(it), self, r.res.i, Append(parsed, r.res.o), r.h)
       ELSE [res |-> Ok(r.res.i, Append(parsed, r.res.o)), h |-> r.h]

Tuple_parse(self, i, h) == tuple_trait_inner(0, self, i, <<>>, h)

tuple(l, i, h) == Tuple_parse(l, i, h)

call(p, i, h) ==
  CASE p.node = "probe" ->
         LET r == leaf(p.p, i) IN
         [res |-> r, h |-> Append(h, [id |-> p.id, given |-> i, ret |-> r])]
    [] p.node = "pair" -> pair(p.first, p.second, i, h)
    [] p.node = "preceded" -> preceded(p.first, p.second, i, h)
    [] p.node = "terminated" -> terminated(p.first, p.second, i, h)
    [] p.node = "separated_pair" -> separated_pair(p.first, p.sep, p.second, i, h)
    [] p.node = "delimited" -> delimited(p.first, p.sep, p.second, i, h)
    [] p.node = "tuple" -> tuple(p.l, i, h)

\* ---- the state machine -----------------------------------------------------
\* inputs of the documented examples
DocInputs == {<<"a", "b", "c", "e", "f", "g">>,
              <<"a", "b", "c", "e", "f", "g", "h", "i", "j">>,
              <<"1", "2", "3">>,
              <<"(", "x", ")", "r", "e", "s", "t">>}

AllInputs == Inputs \cup DocInputs

first_parser == Probe(1, Tag(<<"a", "b", "c">>))
second_parser == Probe(2, Tag(<<"e", "f", "g">>))

DocParsers == {PairP(first_parser, second_parser),
               PrecededP(first_parser, second_parser),
               DelimitedP(Probe(1, Tag(<<"(">>)), Probe(2, Tag(<<"x">>)),
                          Probe(3, Tag(<<")">>)))}

Arities == {n \in TupleMinArity..TupleMaxArity : n <= MaxArity}

\* the composed parsers a grammar can be assembled from: every sequencer over
\* the leaves, and a pair whose second parser is itself a pair
Grammars ==
  {PairP(Probe(1, A), Probe(2, B)) : A \in Leaves, B \in Leaves}
  \cup {PrecededP(Probe(1, A), Probe(2, B)) : A \in Leaves, B \in Leaves}
  \cup {TerminatedP(Probe(1, A), Probe(2, B)) : A \in Leaves, B \in Leaves}
  \cup {SeparatedPairP(Probe(1, A), Probe(2, S), Probe(3, B)) :
          A \in Leaves, S \in Leaves, B \in Leaves}
  \cup {DelimitedP(Probe(1, A), Probe(2, M), Probe(3, B)) :
          A \in Leaves, M \in Leaves, B \in Leaves}
  \cup UNION {{TupleP([k \in 1..n |-> Probe(k, l[k])]) : l \in [1..n -> Leaves]} :
                n \in Arities}
  \cup {PairP(Probe(1, A), PairP(Probe(2, B), Probe(3, C))) :
          A \in Leaves, B \in Leaves, C \in Leaves}
  \cup DocParsers

\* the composed parser has been created and not yet invoked
Init ==
  /\ parser \in Grammars
  /\ input = <<>>
  /\ result = [tag |-> "None"]
  /\ calls = <<>>

\* one invocation of the closure a sequencer returned; invocations are
\* independent, the history of sub-parser calls starts empty each time
Invoke(i) ==
  LET r == call(parser, i, <<>>) IN
  /\ input' = i
  /\ result' = r.res
  /\ calls' = r.h
  /\ UNCHANGED parser

Pair == parser.node = "pair" /\ \E i \in AllInputs : Invoke(i)

Preceded == parser.node = "preceded" /\ \E i \in AllInputs : Invoke(i)

Terminated == parser.node = "terminated" /\ \E i \in AllInputs : Invoke(i)

SeparatedPair == parser.node = "separated_pair" /\ \E i \in AllInputs : Invoke(i)

Delimited == parser.node = "delimited" /\ \E i \in AllInputs : Invoke(i)

Tuple == parser.node = "tuple" /\ \E i \in AllInputs : Invoke(i)

Next == Pair \/ Preceded \/ Terminated \/ SeparatedPair \/ Delimited \/ Tuple

Spec == Init /\ [][Next]_vars

\* ---- vocabulary of the properties ------------------------------------------
Invoked == result.tag # "None"

\* what sub-parser p returns when it is given cursor c
SubRes(p, c) == call(p, c, <<>>).res

\* the leaf sub-parsers of a composed parser, in declared order
RECURSIVE LeafSeq(_)
RECURSIVE LeafSeqOfList(_)
LeafSeqOfList(l) ==
  IF l = <<>> THEN <<>> ELSE LeafSeq(Head(l)) \o LeafSeqOfList(Tail(l))
LeafSeq(p) ==
  CASE p.node = "probe" -> <<p>>
    [] p.node \in {"pair", "preceded", "terminated"} ->
         LeafSeq(p.first) \o LeafSeq(p.second)
    [] p.node \in {"separated_pair", "delimited"} ->
         LeafSeq(p.first) \o LeafSeq(p.sep) \o LeafSeq(p.second)
    [] p.node = "tuple" -> LeafSeqOfList(p.l)

\* reference run: the leaves applied left to right from cursor c, each on the
\* cursor the one before returned, up to and including the first that fails
RECURSIVE Chain(_, _)
Chain(subs, c) ==
  IF subs = <<>> THEN <<>>
  ELSE LET r == leaf(Head(subs).p, c) IN
       <<[id |-> Head(subs).id, given |-> c, ret |-> r]>>
       \o (IF r.tag = "Ok" THEN Chain(Tail(subs), r.i) ELSE <<>>)

RECURSIVE SumConsumed(_)
SumConsumed(h) ==
  IF h = <<>> THEN 0
  ELSE (IF Head(h).ret.tag = "Ok" THEN Len(Head(h).given) - Len(Head(h).ret.i) ELSE 0)
       + SumConsumed(Tail(h))

Str_abcefghij == <<"a", "b", "c", "e", "f", "g", "h", "i", "j">>
Str_123 == <<"1", "2", "3">>
Str_x_rest == <<"(", "x", ")", "r", "e", "s", "t">>

\* C1: when sub-parser k is the first, in declared order, to return a
\* non-success outcome on the cursor it was given, the composed parser returns
\* exactly that outcome and no sub-parser after k is invoked.
C1_ShortCircuit ==
  Invoked =>
    LET ch == Chain(LeafSeq(parser), input)
        k == Len(ch)
    IN ch[k].ret.tag # "Ok" =>
         /\ result = ch[k].ret
         /\ \A j \in 1..Len(calls) : calls[j].id <= ch[k].id

C1_Witness ==
  /\ parser.node = "tuple" /\ Len(parser.l) = 4
  /\ Len(calls) = 2
  /\ result.tag = "Err" /\ result.e.variant = "Incomplete"

\* C2: pair(A, B) on c, when A succeeds with (c1, oA) and B succeeds on c1 with
\* (c2, oB), returns Ok((c2, (oA, oB))) and B is invoked on c1; the documented
\* examples on "abcefghij" and "123" give the documented results.
C2_Pair ==
  (Invoked /\ parser.node = "pair") =>
    /\ LET rA == SubRes(parser.first, input) IN
       rA.tag = "Ok" =>
         LET rB == SubRes(parser.second, rA.i) IN
         /\ Len(calls) >= 2
         /\ calls[1] = [id |-> 1, given |-> input, ret |-> rA]
         /\ calls[2].id = 2 /\ calls[2].given = rA.i
         /\ rB.tag = "Ok" => result = Ok(rB.i, <<rA.o, rB.o>>)
    /\ (parser = PairP(first_parser, second_parser) /\ input = Str_abcefghij) =>
         result = Ok(<<"h", "i", "j">>, << <<"a", "b", "c">>, <<"e", "f", "g">> >>)
    /\ (parser = PairP(first_parser, second_parser) /\ input = Str_123) =>
         result = Err(ErrError(Str_123, "Tag"))

C2_Witness ==
  /\ parser = PairP(first_parser, second_parser)
  /\ input = Str_abcefghij
  /\ result.tag = "Ok"
  /\ Len(calls) = 2

\* C3: where A succeeds and then B succeeds on A's remainder, preceded(A, B)
\* returns the second component and terminated(A, B) the first component of
\* pair(A, B)'s output, each with pair(A, B)'s remaining cursor.
C3_Projection ==
  (Invoked /\ parser.node \in {"preceded", "terminated"}) =>
    LET rA == SubRes(parser.first, input) IN
    rA.tag = "Ok" =>
      LET rB == SubRes(parser.second, rA.i) IN
      rB.tag = "Ok" =>
        LET pr == pair(parser.first, parser.second, input, <<>>).res IN
        /\ pr.tag = "Ok"
        /\ result.tag = "Ok"
        /\ result.i = pr.i
        /\ result.o = pr.o[IF parser.node = "preceded" THEN 2 ELSE 1]

C3_Witness ==
  /\ parser.node = "preceded"
  /\ result.tag = "Ok"
  /\ calls[1].ret.o # calls[2].ret.o

\* C4: delimited(A, M, B) runs A on c, M on A's remainder and B on M's
\* remainder; when all three succeed it returns M's output alone with the
\* cursor B returned; "(" "x" ")" on "(x)rest" gives "x" and "rest".
C4_Delimited ==
  (Invoked /\ parser.node = "delimited") =>
    /\ LET ch == Chain(LeafSeq(parser), input) IN
       /\ calls = ch
       /\ (Len(ch) = 3 /\ ch[3].ret.tag = "Ok") => result = Ok(ch[3].ret.i, ch[2].ret.o)
    /\ input = Str_x_rest /\ parser \in DocParsers =>
         result = Ok(<<"r", "e", "s", "t">>, <<"x">>)

C4_Witness ==
  /\ parser.node = "delimited"
  /\ input = Str_x_rest
  /\ result.tag = "Ok"

\* C5: separated_pair(A, S, B) runs A on c, S on A's remainder and B on S's
\* remainder; when all three succeed it returns (outputA, outputB) with the
\* cursor B returned.
C5_SeparatedPair ==
  (Invoked /\ parser.node = "separated_pair") =>
    LET ch == Chain(LeafSeq(parser), input) IN
    /\ calls = ch
    /\ (Len(ch) = 3 /\ ch[3].ret.tag = "Ok") =>
         result = Ok(ch[3].ret.i, <<ch[1].ret.o, ch[3].ret.o>>)

C5_Witness ==
  /\ parser.node = "separated_pair"
  /\ result.tag = "Ok"
  /\ Len(calls) = 3
  /\ calls[1].ret.o # calls[3].ret.o
  /\ calls[2].ret.o # calls[1].ret.o

\* C6: tuple of N sub-parsers invokes sub-parser 1 on c and each sub-parser
\* k > 1 on the cursor sub-parser k-1 returned; when all N succeed the output
\* is the N-tuple of the sub-outputs in declaration order and the remaining
\* cursor is the one sub-parser N returned.
C6_Tuple ==
  (Invoked /\ parser.node = "tuple") =>
    LET N == Len(parser.l)
        ch == Chain(parser.l, input)
    IN /\ N \in TupleMinArity..TupleMaxArity
       /\ calls = ch
       /\ (Len(ch) = N /\ ch[N].ret.tag = "Ok") =>
            result = Ok(ch[N].ret.i, [k \in 1..N |-> ch[k].ret.o])

C6_Witness ==
  /\ parser.node = "tuple" /\ Len(parser.l) = 3
  /\ result.tag = "Ok"
  /\ result.o = << <<"b">>, <<"a">>, <<"b">> >>
  /\ result.i = <<>>

\* C7: tuple((A, B)) and pair(A, B) produce identical results on every cursor.
C7_TupleIsPair ==
  /\ (Invoked /\ parser.node = "tuple" /\ Len(parser.l) = 2) =>
       result = pair(parser.l[1], parser.l[2], input, <<>>).res
  /\ (Invoked /\ parser.node = "pair") =>
       result = tuple(<<parser.first, parser.second>>, input, <<>>).res

C7_Witness ==
  /\ parser.node = "tuple" /\ Len(parser.l) = 2
  /\ result.tag = "Ok"
  /\ result.o[1] # result.o[2]

\* reassociation of (a, (b, c)) into (a, b, c)
Reassoc(r) == IF r.tag = "Ok" THEN Ok(r.i, <<r.o[1], r.o[2][1], r.o[2][2]>>) ELSE r

\* C8: tuple((A, B, C)) and pair(A, pair(B, C)) fail with the same outcome on
\* the same inputs, succeed with (a, b, c) exactly when the nested pair gives
\* (a, (b, c)), leave the same cursor and invoke the same sub-parsers on the
\* same cursors in the same order.
C8_RightNesting ==
  /\ (Invoked /\ parser.node = "tuple" /\ Len(parser.l) = 3) =>
       LET n == pair(parser.l[1], PairP(parser.l[2], parser.l[3]), input, <<>>) IN
       /\ result = Reassoc(n.res)
       /\ calls = n.h
  /\ (Invoked /\ parser.node = "pair" /\ parser.second.node = "pair") =>
       LET t == tuple(<<parser.first, parser.second.first, parser.second.second>>,
                      input, <<>>) IN
       /\ Reassoc(result) = t.res
       /\ calls = t.h

C8_Witness ==
  /\ parser.node = "pair" /\ parser.second.node = "pair"
  /\ result.tag = "Ok"
  /\ result.o = << <<"a">>, << <<"b">>, <<"a">> >> >>
  /\ Len(calls) = 3

\* C9: when a composition succeeds, the remaining cursor is a suffix of the
\* initial cursor and the length consumed is the sum of the lengths consumed
\* by the sub-parsers that ran, discarded markers included.
C9_CursorMonotone ==
  (Invoked /\ result.tag = "Ok") =>
    /\ IsSuffix(result.i, input)
    /\ Len(input) - Len(result.i) = SumConsumed(calls)
    /\ SumConsumed(calls) = SumConsumed(Chain(LeafSeq(parser), input))

C9_Witness ==
  /\ parser.node = "terminated"
  /\ result.tag = "Ok"
  /\ Len(input) = 3 /\ Len(result.i) = 0
  /\ Len(calls[2].given) - Len(calls[2].ret.i) = 2

\* C10: in one invocation each sub-parser is invoked at most once, in declared
\* order, sub-parser k only after k-1 returned success; all are invoked once
\* when the composition succeeds and exactly 1..k when k is the first to fail.
C10_InvocationOrder ==
  Invoked =>
    LET N == Len(LeafSeq(parser))
        m == Len(calls)
    IN /\ m \in 1..N
       /\ \A k \in 1..m : calls[k].id = k
       /\ \A k \in 1..(m - 1) : calls[k].ret.tag = "Ok"
       /\ result.tag = "Ok" => (m = N /\ calls[m].ret.tag = "Ok")
       /\ result.tag # "Ok" => calls[m].ret.tag # "Ok"

C10_Witness ==
  /\ parser.node = "separated_pair"
  /\ Len(calls) = 2
  /\ result.tag = "Err" /\ result.e.variant = "Failure"
====
